---- MODULE Spec2Model ----
(***************************************************************************)
(* DefaultReproduction of neat-python (src/neat/reproduction.py): the      *)
(* generational reproduction scheme with explicit fitness sharing,         *)
(* elitism, a survival threshold and random mating.                        *)
(*                                                                         *)
(* The state is the DefaultReproduction object (elitism,                   *)
(* survival_threshold, genome_indexer, ancestors), the caller's species    *)
(* set (species.species) and population, and, while reproduce() runs,      *)
(* its local variables and its position (pc).                              *)
(*                                                                         *)
(* Arithmetic.  The code works in floating point; the model works in       *)
(* exact rationals kept as integer numerators and denominators.  A spawn   *)
(* amount n * 1.1 or n * 0.9 is kept in tenths (11n or 9n).  A value that  *)
(* is exactly half way between two integers is rounded to either           *)
(* neighbour: Python 2 rounds it away from zero, Python 3 to the even      *)
(* neighbour, and the floating-point product may fall on either side.      *)
(***************************************************************************)
EXTENDS Integers, Sequences, FiniteSets, TLC

\* ---------------------------------------------------------------- bounds
MaxPop == 3          \* largest num_genomes / pop_size a caller passes
MaxId == 4           \* the indexer is not asked for identifiers above this
MaxElitism == 2      \* the configured elitism is 0..MaxElitism

\* survival_threshold values of the configuration, as <<numerator, denominator>>
Thresholds == {<<1, 2>>, <<1, 1>>}
\* the fitness values the caller's evaluation gives
Fitness == {0, 1}
\* the species identifiers the speciation uses
SpeciesIds == {1, 2}

VARIABLES
    elitism,             \* self.elitism
    survival_threshold,  \* self.survival_threshold, <<num, den>>
    genome_indexer,      \* the next identifier self.genome_indexer gives
    ancestors,           \* self.ancestors: key -> <<>> or <<parent1, parent2>>
    species,             \* species.species: sid -> members (key -> genome)
    population,          \* the genomes the caller got from create_new or
                         \* reproduce and has not yet speciated (key -> genome)
    pc,                  \* "idle", or the position inside reproduce()
    stagnant,            \* reproduce: the sids stagnation.update flagged
    pop_size,            \* reproduce: its pop_size argument
    species_fitness,     \* reproduce: sequence of [sid, members], the kept
                         \* species objects
    spawn_amounts,       \* reproduce: sequence of integers
    new_population,      \* reproduce: key -> genome
    idx,                 \* reproduce: position of the loop of line 92
    spawn,               \* reproduce: remaining spawn of the current species
    old_members,         \* reproduce: sequence of <<key, genome>>
    pre,                 \* history: species.species when reproduce was called
    issued,              \* history: the identifiers given to genomes, in order
    num_genomes,         \* history: the argument of create_new when it was
                         \* the latest operation, else 0
    copied,              \* history: sid -> number of elites copied
    bred                 \* history: sid -> number of offspring bred

vars == <<elitism, survival_threshold, genome_indexer, ancestors, species,
          population, pc, stagnant, pop_size, species_fitness, spawn_amounts,
          new_population, idx, spawn, old_members, pre, issued,
          num_genomes, copied, bred>>

config == <<elitism, survival_threshold>>
locals == <<stagnant, pop_size, species_fitness, spawn_amounts,
            new_population, idx, spawn, old_members, pre, copied, bred>>

\* ------------------------------------------------------------- helpers
EmptyMap == <<>>

Max(a, b) == IF a >= b THEN a ELSE b
Min(a, b) == IF a <= b THEN a ELSE b

RECURSIVE SumSeq(_)
SumSeq(s) == IF s = <<>> THEN 0 ELSE Head(s) + SumSeq(Tail(s))

RECURSIVE ProdSeq(_)
ProdSeq(s) == IF s = <<>> THEN 1 ELSE Head(s) * ProdSeq(Tail(s))

RECURSIVE SumFitness(_, _)
SumFitness(members, keys) ==
    IF keys = {} THEN 0
    ELSE LET k == CHOOSE x \in keys : TRUE
         IN members[k].fitness + SumFitness(members, keys \ {k})

RECURSIVE Ascending(_)
Ascending(S) ==
    IF S = {} THEN <<>>
    ELSE LET m == CHOOSE x \in S : \A y \in S : x <= y
         IN <<m>> \o Ascending(S \ {m})

Size(members) == Cardinality(DOMAIN members)

\* ------------------------------------------------ external collaborators
NoFitness == -1

\* config.genotype.create(config, key)
CreateGenome(key) ==
    [key |-> key, fitness |-> NoFitness, parents |-> <<>>, mutated |-> FALSE]

\* Indexer.get_next(): <<the identifier given, the indexer afterwards>>
GetNext(indexer) == <<indexer, indexer + 1>>

\* parent1.crossover(parent2, gid): a new genome carrying the key gid
Crossover(parent1, parent2, gid) ==
    [key |-> gid, fitness |-> NoFitness,
     parents |-> <<parent1.key, parent2.key>>, mutated |-> FALSE]

\* child.mutate(config): changes the child in place
Mutate(child) == [child EXCEPT !.mutated = TRUE]

\* ------------------------------------------------------ reproduce: steps
\* lines 56-60: species_sum / len(s.members), as <<numerator, denominator>>
AdjustedFitness(members) ==
    <<SumFitness(members, DOMAIN members), Size(members) * Size(members)>>

\* lines 62, 69, 76: sfitness > avg_adjusted_fitness for entry i of sf
AboveAverage(sf, i) ==
    LET k    == Len(sf)
        af   == [j \in 1..k |-> AdjustedFitness(sf[j].members)]
        D    == ProdSeq([j \in 1..k |-> af[j][2]])
        term == [j \in 1..k |-> af[j][1] * (D \div af[j][2])]
    IN  k * term[i] > SumSeq(term)

RawSpawnSwapped(n, above) == IF above THEN n * 9 ELSE n * 11

\* lines 75-79: spawn = len(s.members) * 1.1 or * 0.9, in tenths
RawSpawn(n, above) == IF above THEN n * 11 ELSE n * 9

\* int(round(num / den)) for num >= 0, den > 0
RoundChoices(num, den) ==
    LET q == num \div den
        r == num % den
    IN  IF 2 * r < den THEN {q}
        ELSE IF 2 * r > den THEN {q + 1}
        ELSE {q, q + 1}

Unnormalized(raw, i, size) == RoundChoices(raw[i], 10)

\* lines 84-86: int(round(n * norm)), norm = pop_size / total_spawn
Normalized(raw, i, size) == RoundChoices(size * raw[i], SumSeq(raw))

NoFilter(order, stag) == order

\* lines 48-52: the species that stagnation.update does not flag
NonStagnant(order, stag) == SelectSeq(order, LAMBDA sid : sid \notin stag)

\* line 94: spawn = max(spawn, self.elitism)
FloorSpawn(n) == Max(n, elitism)

ExtinctStrict(n) == n < 0

\* line 96: if spawn <= 0: continue
Extinct(n) == n <= 0

\* lines 100, 105: the members in order of descending fitness; members of
\* equal fitness keep the order the dictionary gave them, which is any order
SortedOrders(members) ==
    LET n == Size(members)
    IN  {q \in [1..n -> DOMAIN members] :
            /\ \A i, j \in 1..n : i < j => q[i] # q[j]
            /\ \A i, j \in 1..n :
                  i < j => members[q[i]].fitness >= members[q[j]].fitness}

AsItems(members, q) == [i \in 1..Len(q) |-> <<q[i], members[q[i]]>>]

ElitesFromTail(sorted) ==
    SubSeq(sorted, Len(sorted) - Min(elitism, Len(sorted)) + 1, Len(sorted))

\* line 109: old_members[:self.elitism]
Elites(sorted) == SubSeq(sorted, 1, Min(elitism, Len(sorted)))

CutoffAll(n) == n

\* lines 117-119: max(int(math.ceil(survival_threshold * n)), 2)
ReproCutoff(n) ==
    LET num == survival_threshold[1]
        den == survival_threshold[2]
    IN  Max((num * n + den - 1) \div den, 2)

\* line 120: old_members[:repro_cutoff]
Pool(sorted) == SubSeq(sorted, 1, Min(ReproCutoff(Len(sorted)), Len(sorted)))

\* offspring the loop of line 92 will ask identifiers for
Offspring(sf, amounts) ==
    SumSeq([i \in 1..Len(sf) |->
        LET s == FloorSpawn(amounts[i])
        IN  IF Extinct(s) THEN 0
            ELSE Max(s - Min(elitism, Size(sf[i].members)), 0)])

KeysOf(items) == {items[i][1] : i \in 1..Len(items)}

\* the items of a list of (key, genome) pairs as a dictionary
AsMap(items) ==
    [k \in KeysOf(items) |->
        LET i == CHOOSE j \in 1..Len(items) : items[j][1] = k IN items[i][2]]

\* the spawn amounts line 86 can give, one sequence per way the ties round
SpawnChoices(raw, size) ==
    LET k == Len(raw)
        vals == UNION {Normalized(raw, i, size) : i \in 1..k}
    IN  {f \in [1..k -> vals] : \A i \in 1..k : f[i] \in Normalized(raw, i, size)}

LineageOfFirst(parent1, parent2) == <<parent1[1], parent1[1]>>

\* line 135: (parent1_id, parent2_id)
Lineage(parent1, parent2) == <<parent1[1], parent2[1]>>

DrawKeysOnce(indexer, n) == [i \in 1..n |-> GetNext(indexer)[1]]

\* lines 32-33: one get_next() per genome of create_new
RECURSIVE DrawKeys(_, _)
DrawKeys(indexer, n) ==
    IF n = 0 THEN <<>>
    ELSE <<GetNext(indexer)[1]>> \o DrawKeys(GetNext(indexer)[2], n - 1)

\* ------------------------------------------------------------------ Init
NoLocals ==
    /\ stagnant = {}
    /\ pop_size = 0
    /\ species_fitness = <<>>
    /\ spawn_amounts = <<>>
    /\ new_population = EmptyMap
    /\ idx = 0
    /\ spawn = 0
    /\ old_members = <<>>
    /\ pre = EmptyMap
    /\ copied = EmptyMap
    /\ bred = EmptyMap

\* lines 19-28: __init__
Constructed ==
    /\ genome_indexer = 1
    /\ ancestors = EmptyMap
    /\ species = EmptyMap
    /\ population = EmptyMap
    /\ pc = "idle"
    /\ issued = <<>>
    /\ num_genomes = 0
    /\ NoLocals

Init ==
    /\ elitism \in 0..MaxElitism
    /\ survival_threshold \in Thresholds
    /\ Constructed

\* ---------------------------------------------------------------- actions
\* lines 30-38: create_new(num_genomes); the caller keeps the result
CreateNew(n, maxid) ==
    /\ pc = "idle"
    /\ genome_indexer + n - 1 <= maxid
    /\ LET keys == DrawKeys(genome_indexer, n)
           new_genomes == [k \in {keys[i] : i \in 1..n} |-> CreateGenome(k)]
       IN  /\ population' = new_genomes
           /\ ancestors' = [k \in DOMAIN new_genomes |-> <<>>] @@ ancestors
           /\ issued' = issued \o keys
    /\ genome_indexer' = genome_indexer + n
    /\ num_genomes' = n
    /\ UNCHANGED <<config, species, pc, locals>>

\* The caller evaluates the population it holds and the speciation
\* partitions it: fit gives each genome its fitness, assign its species.
\* Only populations of founders (and of elites that are founders) are
\* speciated, which keeps the lineages that breed again finite in number.
Speciate(fit, assign) ==
    /\ pc = "idle"
    /\ population # EmptyMap
    /\ \A k \in DOMAIN population : population[k].parents = <<>>
    /\ LET evaluated == [k \in DOMAIN population |->
                            [population[k] EXCEPT !.fitness = fit[k]]]
           sids == {assign[k] : k \in DOMAIN population}
       IN  /\ population' = EmptyMap
           /\ species' = [s \in sids |->
                  [k \in {x \in DOMAIN population : assign[x] = s} |-> evaluated[k]]]
    /\ num_genomes' = 0
    /\ UNCHANGED <<config, genome_indexer, ancestors, pc, locals, issued>>

\* lines 40-91: reproduce(species, pop_size) up to the loop of line 92.
\* stag is what stagnation.update answers.
ReproduceBegin(stag, size, maxid) ==
    /\ pc = "idle"
    /\ LET kept == NonStagnant(Ascending(DOMAIN species), stag)
           sf == [i \in 1..Len(kept) |-> [sid |-> kept[i], members |-> species[kept[i]]]]
       IN  /\ stagnant' = stag
           /\ pop_size' = size
           /\ pre' = species
           /\ IF \E i \in 1..Len(sf) : Size(sf[i].members) = 0
              THEN \* line 60: ZeroDivisionError
                   /\ pc' = "raised"
                   /\ UNCHANGED <<species, species_fitness, spawn_amounts, idx>>
              ELSE IF Len(sf) = 0
              THEN \* lines 65-67
                   /\ species' = EmptyMap
                   /\ pc' = "done"
                   /\ UNCHANGED <<species_fitness, spawn_amounts, idx>>
              ELSE LET raw == [i \in 1..Len(sf) |->
                                 RawSpawn(Size(sf[i].members), AboveAverage(sf, i))]
                   IN  \E amounts \in SpawnChoices(raw, size) :
                          /\ genome_indexer + Offspring(sf, amounts) - 1 <= maxid
                          /\ species_fitness' = sf
                          /\ spawn_amounts' = amounts
                          /\ species' = EmptyMap
                          /\ idx' = 1
                          /\ pc' = "loop"
    /\ num_genomes' = 0
    /\ UNCHANGED <<config, genome_indexer, ancestors, population,
                   new_population, spawn, old_members, issued, copied, bred>>

\* line 92: where the loop goes after the species at idx: to the next
\* species, or past its end to the return of line 142
AfterSpecies == IF idx < Len(species_fitness) THEN "loop" ELSE "done"

\* lines 92-120: one species of the loop, up to its breeding loop
SpeciesStep ==
    /\ pc = "loop"
    /\ LET e == species_fitness[idx]
           s0 == FloorSpawn(spawn_amounts[idx])
       IN  IF Extinct(s0)
           THEN /\ spawn' = s0
                /\ idx' = idx + 1
                /\ pc' = AfterSpecies
                /\ UNCHANGED <<species, species_fitness, new_population,
                               old_members, copied, bred>>
           ELSE \E q \in SortedOrders(e.members) :
                   LET sorted == AsItems(e.members, q)
                       elites == Elites(sorted)
                       s1 == s0 - Len(elites)
                   IN  /\ species_fitness' =
                              [species_fitness EXCEPT ![idx].members = EmptyMap]
                       /\ species' = (e.sid :> EmptyMap) @@ species
                       /\ new_population' = AsMap(elites) @@ new_population
                       /\ copied' = (e.sid :> Len(elites)) @@ copied
                       /\ bred' = (e.sid :> 0) @@ bred
                       /\ spawn' = s1
                       /\ IF s1 <= 0
                          THEN /\ old_members' = sorted
                               /\ idx' = idx + 1
                               /\ pc' = AfterSpecies
                          ELSE /\ old_members' = Pool(sorted)
                               /\ idx' = idx
                               /\ pc' = "breed"
    /\ UNCHANGED <<config, genome_indexer, ancestors, population,
                   stagnant, pop_size, spawn_amounts, pre, issued, num_genomes>>

\* lines 123-135: one turn of the breeding loop; a and b are the positions
\* random.choice draws
Breed ==
    /\ pc = "breed"
    /\ \E a, b \in 1..Len(old_members) :
          LET parent1 == old_members[a]
              parent2 == old_members[b]
              gid == GetNext(genome_indexer)[1]
              child == Mutate(Crossover(parent1[2], parent2[2], gid))
              sid == species_fitness[idx].sid
          IN  /\ genome_indexer' = GetNext(genome_indexer)[2]
              /\ issued' = Append(issued, gid)
              /\ new_population' = (gid :> child) @@ new_population
              /\ ancestors' = (gid :> Lineage(parent1, parent2)) @@ ancestors
              /\ bred' = [bred EXCEPT ![sid] = @ + 1]
    /\ spawn' = spawn - 1
    /\ IF spawn - 1 > 0
       THEN UNCHANGED <<pc, idx>>
       ELSE pc' = AfterSpecies /\ idx' = idx + 1
    /\ UNCHANGED <<config, species, population, stagnant, pop_size,
                   species_fitness, spawn_amounts, old_members, pre,
                   num_genomes, copied>>

ClearLocals ==
    /\ stagnant' = {}
    /\ pop_size' = 0
    /\ species_fitness' = <<>>
    /\ spawn_amounts' = <<>>
    /\ new_population' = EmptyMap
    /\ idx' = 0
    /\ spawn' = 0
    /\ old_members' = <<>>
    /\ pre' = EmptyMap
    /\ copied' = EmptyMap
    /\ bred' = EmptyMap

\* lines 67, 142: return; the caller keeps the result as its population
ReproduceReturn ==
    /\ pc = "done"
    /\ population' = new_population
    /\ pc' = "idle"
    /\ ClearLocals
    /\ UNCHANGED <<config, genome_indexer, ancestors, species,
                   issued, num_genomes>>

\* line 60: the ZeroDivisionError leaves reproduce
ReproduceRaise ==
    /\ pc = "raised"
    /\ pc' = "idle"
    /\ ClearLocals
    /\ UNCHANGED <<config, genome_indexer, ancestors, species, population,
                   issued, num_genomes>>

Next ==
    \/ \E n \in 1..MaxPop : CreateNew(n, MaxId)
    \/ \E fit \in [DOMAIN population -> Fitness] :
          \E assign \in [DOMAIN population -> SpeciesIds] :
             Speciate(fit, assign)
    \/ \E stag \in SUBSET DOMAIN species :
          \E size \in 1..MaxPop : ReproduceBegin(stag, size, MaxId)
    \/ SpeciesStep
    \/ Breed
    \/ ReproduceReturn
    \/ ReproduceRaise

Spec == Init /\ [][Next]_vars

\* -------------------------------------------------------------- scenario
\* Two species, A = genomes 1, 2, 3 of fitness 10, 20, 30 and B = genomes
\* 4, 5 of fitness 5, 5; elitism 1, survival_threshold 0.5, pop_size 6.
ScenarioFitness == <<10, 20, 30, 5, 5>>
ScenarioSpecies == <<1, 1, 1, 2, 2>>

InitScenario ==
    /\ elitism = 1
    /\ survival_threshold = <<1, 2>>
    /\ Constructed

ScenarioCreate == CreateNew(5, 5)
ScenarioSpeciate == Speciate(ScenarioFitness, ScenarioSpecies)
ScenarioReproduce == ReproduceBegin({}, 6, 9)

NextScenario ==
    \/ ScenarioCreate
    \/ ScenarioSpeciate
    \/ ScenarioReproduce
    \/ SpeciesStep
    \/ Breed
    \/ ReproduceReturn
    \/ ReproduceRaise

SpecScenario == InitScenario /\ [][NextScenario]_vars

\* ---------------------------------------------------------------- claims
RECURSIVE SumMap(_, _)
SumMap(f, keys) ==
    IF keys = {} THEN 0
    ELSE LET k == CHOOSE x \in keys : TRUE IN f[k] + SumMap(f, keys \ {k})

Abs(n) == IF n < 0 THEN -n ELSE n

\* the species of the call that stagnation.update did not flag
Surviving == DOMAIN pre \ stagnant

\* the keys the species of the call held when reproduce was called
OldKeys == UNION {DOMAIN pre[sid] : sid \in DOMAIN pre}

\* the genomes of new_population that this call bred
Bred == DOMAIN new_population \ OldKeys

PopulationSize == Cardinality(DOMAIN new_population)

Made == SumMap(copied, DOMAIN copied) + SumMap(bred, DOMAIN bred)

\* C1, as stated: when reproduce returns with a species retained, the
\* returned population has as many genomes as elites were copied plus
\* offspring bred, and that number is within the number of species of
\* pop_size.
C1_AsStated ==
    (pc = "done" /\ DOMAIN species # {}) =>
        /\ PopulationSize = Made
        /\ Abs(PopulationSize - pop_size) <= Cardinality(DOMAIN pre)

\* C1, amended: when reproduce returns with a species retained, the
\* returned population has as many genomes as elites were copied plus
\* offspring bred, and that number is within (1 + elitism) times the number
\* of non-stagnant species of pop_size.
C1_Conservation ==
    (pc = "done" /\ DOMAIN species # {}) =>
        /\ PopulationSize = Made
        /\ Abs(PopulationSize - pop_size) <= (1 + elitism) * Cardinality(Surviving)

C1_Witness ==
    /\ pc = "done"
    /\ DOMAIN species # {}
    /\ elitism > 0
    /\ Bred # {}
    /\ PopulationSize - pop_size > Cardinality(DOMAIN pre)

\* C2, as stated: whenever reproduce is in the breeding loop of a species,
\* the pool the parents are drawn from holds at least 2 members.
C2_AsStated == pc = "breed" => Len(old_members) >= 2

\* C3, as stated: when some species survive the stagnation filter and all
\* of them have no members, reproduce raises nothing and returns an empty
\* population.
C3_AsStated ==
    (/\ pc \in {"done", "raised"}
     /\ Surviving # {}
     /\ \A sid \in Surviving : pre[sid] = EmptyMap)
    => (pc = "done" /\ new_population = EmptyMap)

\* C4: when reproduce returns and elitism = k > 0, every non-stagnant
\* species has min(k, its size) members, none of lower fitness than a member
\* left out, that are in the returned population under their own key as the
\* very genome (fitness included) they were before the call.
C4_ElitismPreservation ==
    (pc = "done" /\ elitism > 0) =>
        \A sid \in Surviving :
            \E E \in SUBSET DOMAIN pre[sid] :
                /\ Cardinality(E) = Min(elitism, Size(pre[sid]))
                /\ \A i \in E :
                      /\ i \in DOMAIN new_population
                      /\ new_population[i] = pre[sid][i]
                      /\ \A j \in DOMAIN pre[sid] \ E :
                            pre[sid][j].fitness <= pre[sid][i].fitness

C4_Witness ==
    /\ pc = "done"
    /\ elitism = 1
    /\ Bred # {}
    /\ \E sid \in Surviving :
          \E i, j \in DOMAIN pre[sid] :
             /\ pre[sid][i].fitness > pre[sid][j].fitness
             /\ i \in DOMAIN new_population
             /\ j \notin DOMAIN new_population

\* C5: the identifiers given to genomes, by create_new and by reproduce in
\* any order, are strictly increasing in the order they were given and below
\* the one the indexer gives next, so none is given twice; and no offspring
\* takes the key of an elite: a key of new_population that a member had
\* before the call still holds that member.
C5_IdentifierMonotonicity ==
    /\ \A i, j \in 1..Len(issued) : i < j => issued[i] < issued[j]
    /\ \A i \in 1..Len(issued) : issued[i] < genome_indexer
    /\ \A sid \in DOMAIN pre :
          \A k \in DOMAIN pre[sid] \cap DOMAIN new_population :
             new_population[k] = pre[sid][k]

C5_Witness ==
    /\ pc = "idle"
    /\ \E i, j \in 1..Len(issued) :
          /\ i < j
          /\ ancestors[issued[i]] # <<>>
          /\ ancestors[issued[j]] = <<>>

\* what C6 asks of one step
C6_Step ==
    /\ DOMAIN ancestors' = {issued'[i] : i \in 1..Len(issued')}
    /\ \A k \in DOMAIN ancestors :
          k \in DOMAIN ancestors' /\ ancestors'[k] = ancestors[k]
    /\ (num_genomes' # 0) =>
          /\ Cardinality(DOMAIN population') = num_genomes'
          /\ \A k \in DOMAIN population' :
                k \notin DOMAIN ancestors /\ ancestors'[k] = <<>>
    /\ \A k \in DOMAIN ancestors' \ DOMAIN ancestors :
          \/ num_genomes' # 0 /\ k \in DOMAIN population'
          \/ /\ num_genomes' = 0
             /\ k \in DOMAIN new_population'
             /\ Len(ancestors'[k]) = 2
             /\ ancestors'[k] = new_population'[k].parents

\* C6: every step keeps the entries ancestors has, and leaves ancestors with
\* exactly the identifiers given so far as its keys; create_new(n) returns n
\* genomes, each new in ancestors with the empty tuple; an entry reproduce
\* adds is the pair of keys of the two parents the offspring was crossed
\* from.
C6_AncestryLog == [][C6_Step]_vars

C6_Witness ==
    /\ pc = "idle"
    /\ \E k \in DOMAIN ancestors :
          /\ Len(ancestors[k]) = 2
          /\ ancestors[k][1] # ancestors[k][2]
          /\ \E f \in DOMAIN ancestors : f > k /\ ancestors[f] = <<>>

\* C7: when reproduce returns, a non-stagnant species whose spawn amount
\* after the elitism floor is <= 0 is not in the species map, none of its
\* members is in the returned population and no offspring there has a
\* parent from it.
C7_Extinction ==
    pc = "done" =>
        \A i \in 1..Len(species_fitness) :
            LET sid == species_fitness[i].sid
            IN  Max(spawn_amounts[i], elitism) <= 0 =>
                    /\ sid \notin DOMAIN species
                    /\ \A k \in DOMAIN new_population :
                          /\ k \notin DOMAIN pre[sid]
                          /\ \A p \in 1..Len(ancestors[k]) :
                                ancestors[k][p] \notin DOMAIN pre[sid]

C7_Witness ==
    /\ pc = "done"
    /\ new_population # EmptyMap
    /\ \E i \in 1..Len(species_fitness) :
          /\ Max(spawn_amounts[i], elitism) <= 0
          /\ pre[species_fitness[i].sid] # EmptyMap

\* C8: when reproduce returns, the species map holds no species flagged
\* stagnant and every species it holds has no members; and a call in which
\* every species is stagnant raises nothing, breeds nothing and returns the
\* empty population with the species map empty.
C8_SpeciesMapRewrite ==
    /\ pc = "done" =>
          /\ DOMAIN species \cap stagnant = {}
          /\ \A sid \in DOMAIN species : species[sid] = EmptyMap
    /\ (pc # "idle" /\ Surviving = {}) =>
          /\ pc = "done"
          /\ species = EmptyMap
          /\ new_population = EmptyMap

C8_Witness ==
    /\ pc = "done"
    /\ stagnant # {}
    /\ DOMAIN species # {}
    /\ \E sid \in stagnant : pre[sid] # EmptyMap

\* reproduce was called with the species of the scenario
InScenario ==
    /\ DOMAIN pre = {1, 2}
    /\ \A sid \in {1, 2} :
          /\ DOMAIN pre[sid] = {k \in 1..5 : ScenarioSpecies[k] = sid}
          /\ \A k \in DOMAIN pre[sid] : pre[sid][k].fitness = ScenarioFitness[k]

\* C9: in the scenario the adjusted fitness is 60/9 for A and 10/4 for B,
\* the spawn amounts are 4 and 2, A breeds from the genomes of fitness 30
\* and 20 and B from both its genomes, and reproduce returns 6 genomes: the
\* genome of fitness 30 and one genome of B as they were, 3 offspring of A's
\* pool and 1 offspring of B's.
C9_Scenario ==
    /\ (InScenario /\ pc \in {"loop", "breed", "done"}) =>
          /\ AdjustedFitness(pre[1]) = <<60, 9>>
          /\ AdjustedFitness(pre[2]) = <<10, 4>>
          /\ spawn_amounts = <<4, 2>>
    /\ (InScenario /\ pc = "breed") =>
          KeysOf(old_members) = (IF idx = 1 THEN {2, 3} ELSE {4, 5})
    /\ (InScenario /\ pc = "done") =>
          /\ PopulationSize = 6
          /\ DOMAIN new_population \cap OldKeys \in {{3, 4}, {3, 5}}
          /\ \A k \in DOMAIN new_population \cap OldKeys :
                new_population[k] = pre[ScenarioSpecies[k]][k]
          /\ Bred = 6..9
          /\ \A k \in 6..8 : {ancestors[k][1], ancestors[k][2]} \subseteq {2, 3}
          /\ {ancestors[9][1], ancestors[9][2]} \subseteq {4, 5}

C9_Witness ==
    /\ InScenario
    /\ pc = "done"
    /\ PopulationSize = 6
    /\ ancestors[6] = <<3, 2>>
    /\ ancestors[9] = <<4, 5>>

\* C10: both parents of every offspring reproduce has bred are members one
\* non-stagnant species had when reproduce was called, and each has fewer
\* than max(ceil(survival_threshold * size), 2) members of that species
\* above it in fitness.
C10_ParentSelection ==
    pc \in {"loop", "breed", "done"} =>
        \A k \in Bred :
            \E sid \in Surviving :
                LET m == pre[sid]
                    c == Max((survival_threshold[1] * Size(m) + survival_threshold[2] - 1)
                                 \div survival_threshold[2], 2)
                IN  \A p \in {ancestors[k][1], ancestors[k][2]} :
                       /\ p \in DOMAIN m
                       /\ Cardinality({j \in DOMAIN m : m[j].fitness > m[p].fitness}) < c

C10_Witness ==
    /\ pc = "done"
    /\ survival_threshold = <<1, 2>>
    /\ \E k \in Bred :
          \E sid \in Surviving :
             /\ ancestors[k][1] \in DOMAIN pre[sid]
             /\ ancestors[k][1] # ancestors[k][2]
             /\ \E j \in DOMAIN pre[sid] :
                   \A p \in {ancestors[k][1], ancestors[k][2]} :
                      pre[sid][j].fitness < pre[sid][p].fitness

====
